---- MODULE Spec2Model ----
(***************************************************************************)
(* Model of eth-gas-delta (src/src/main.rs): the loader that aligns the    *)
(* deployments and methods of N gas reports in a map keyed by display key, *)
(* and the renderer that turns every row of the map into table cells.      *)
(*                                                                         *)
(* Strings that are compared or sorted (names, display keys) are sequences *)
(* of byte values, ordered as Rust orders String.  Rendered cell texts are *)
(* TLA+ strings; the ANSI wrapper "\x1b[<c>m ... \x1b[0m" of a delta cell  *)
(* is kept as the fields esc/color of the cell.                            *)
(***************************************************************************)
EXTENDS Integers, Sequences, FiniteSets, TLC

VARIABLES files, pc, index, report, data, filenames, opened,
          header, rows, avgs, stdout

vars == <<files, pc, index, report, data, filenames, opened,
          header, rows, avgs, stdout>>

\* Largest number of input files on the command line (there may be none).
MaxFiles == 3

-----------------------------------------------------------------------------
(* Option<T>: None is the empty sequence, Some(v) the sequence <<v>>.      *)
None == <<>>
Some(v) == <<v>>

(* Bytes of the names used in the inputs.                                  *)
sA == <<65>>
sB == <<66>>
sAB == <<65, 66>>
sADollar == <<65, 36>>
sC == <<67>>
sf == <<102>>
sg == <<103>>
sEmpty == <<>>
sToken == <<84, 111, 107, 101, 110>>

-----------------------------------------------------------------------------
(* String ordering.                                                        *)

\* Rust's Ord for String: lexicographic on bytes, a proper prefix is less.
StrLess(a, b) ==
    \E i \in 1..(Len(a) + 1) :
        /\ i <= Len(b)
        /\ \A j \in 1..(i - 1) : a[j] = b[j]
        /\ (i = Len(a) + 1 \/ a[i] < b[i])

\* Ord for MethodIdentifier: by contract, then by method.
MethodIdLess(l, r) ==
    IF l.contract = r.contract
    THEN StrLess(l.method, r.method)
    ELSE StrLess(l.contract, r.contract)

\* format!("\x1b[90m{}.\x1b[0m{}", contract, method)
MethodKeyPlain(contract, method) == contract \o <<46>> \o method
MethodKey(contract, method) ==
    <<27, 91, 57, 48, 109>> \o contract \o <<46, 27, 91, 48, 109>> \o method

DeploymentKey(depl) == depl.name

\* data.iter().sorted(): the map's (key, value) pairs in ascending order.
\* Keys of a map are distinct, so the key alone decides the order.
RECURSIVE sorted(_)
sorted(S) ==
    IF S = {} THEN <<>>
    ELSE LET m == CHOOSE x \in S : \A y \in S \ {x} : StrLess(x, y)
         IN  <<m>> \o sorted(S \ {m})

-----------------------------------------------------------------------------
(* Entry and its metrics.                                                  *)

Deployment(depl) == [kind |-> "Deployment", raw |-> depl]
Method(m) == [kind |-> "Method", raw |-> m]

gas_data(entry) == entry.raw.gas_data

has_gas_data(entry) == Len(gas_data(entry)) > 0

RECURSIVE Sum(_)
Sum(s) == IF s = <<>> THEN 0 ELSE s[1] + Sum(Tail(s))

\* Rust's integer division truncates toward zero; \div rounds down.
TruncDiv(a, b) == IF a >= 0 THEN a \div b ELSE -((-a) \div b)

avg_gas_nearest(entry) ==
    LET s == Sum(gas_data(entry))
        n == Len(gas_data(entry))
    IN  (2 * s + n) \div (2 * n)
avg_gas(entry) == TruncDiv(Sum(gas_data(entry)), Len(gas_data(entry)))

BLOCK_LIMIT == 30000000

-----------------------------------------------------------------------------
(* f64 values as the renderer produces them: a quotient of two integers    *)
(* that are exact in f64.  cls is "fin", "inf" or "nan"; neg is the sign   *)
(* bit (kept for zero); num/den is the magnitude of a finite value.        *)

Abs(n) == IF n < 0 THEN -n ELSE n

FNaN == [cls |-> "nan", neg |-> FALSE, num |-> 0, den |-> 1]
FInf(neg) == [cls |-> "inf", neg |-> neg, num |-> 0, den |-> 1]
FFin(neg, num, den) == [cls |-> "fin", neg |-> neg, num |-> num, den |-> den]

\* n as f64 / d as f64, where a zero n or d is +0.0
FDiv(n, d) ==
    IF d = 0
    THEN IF n = 0 THEN FNaN ELSE FInf(n < 0)
    ELSE FFin((n < 0) # (d < 0), Abs(n), Abs(d))

MARGIN == FFin(FALSE, 1, 10)
FNeg(x) == [x EXCEPT !.neg = ~x.neg]

FSigned(x) == IF x.neg THEN -x.num ELSE x.num

\* x > y on f64: false when either side is NaN
FGreater(x, y) ==
    CASE x.cls = "nan" \/ y.cls = "nan" -> FALSE
      [] x.cls = "inf" -> ~x.neg /\ ~(y.cls = "inf" /\ ~y.neg)
      [] y.cls = "inf" -> y.neg
      [] OTHER -> FSigned(x) * y.den > FSigned(y) * x.den

FLess(x, y) == FGreater(y, x)

-----------------------------------------------------------------------------
(* Formatting.                                                             *)

Digit(d) == <<"0", "1", "2", "3", "4", "5", "6", "7", "8", "9">>[d + 1]

RECURSIVE Digits(_)
Digits(n) == IF n < 10 THEN Digit(n) ELSE Digits(n \div 10) \o Digit(n % 10)

\* {} of an isize
FmtInt(n) == IF n < 0 THEN "-" \o Digits(-n) ELSE Digits(n)

\* {:+} of an isize
FmtIntPlus(n) == IF n < 0 THEN "-" \o Digits(-n) ELSE "+" \o Digits(n)

\* The magnitude num/den in tenths, rounded to nearest, ties to even (the
\* quotients that are exactly at a tie are the ones f64 holds exactly).
RoundTenths(num, den) ==
    LET q == (10 * num) \div den
        r == (10 * num) % den
    IN  IF 2 * r > den THEN q + 1
        ELSE IF 2 * r < den THEN q
        ELSE IF q % 2 = 0 THEN q ELSE q + 1

RECURSIVE PadLeft(_, _)
PadLeft(s, width) == IF Len(s) >= width THEN s ELSE PadLeft(" " \o s, width)

\* {:<width>.1} (plus = FALSE) and {:+<width>.1} (plus = TRUE) of an f64
FmtF1(x, plus, width) ==
    LET sign == IF x.neg THEN "-" ELSE IF plus THEN "+" ELSE ""
        t == RoundTenths(x.num, x.den)
        body == CASE x.cls = "nan" -> "NaN"
                  [] x.cls = "inf" -> sign \o "inf"
                  [] OTHER -> sign \o Digits(t \div 10) \o "." \o Digit(t % 10)
    IN  PadLeft(body, width)

-----------------------------------------------------------------------------
(* Cells of a row.                                                         *)

Cell(esc, color, text) == [esc |-> esc, color |-> color, text |-> text]

EmptyCell == Cell(FALSE, 0, "")

\* format!("{} ({:4.1}%)", avg, 100f64 * avg as f64 / BLOCK_LIMIT as f64)
AbsCellFraction(avg) ==
    Cell(FALSE, 0,
         FmtInt(avg) \o " (" \o FmtF1(FDiv(avg, BLOCK_LIMIT), FALSE, 4)
                     \o "%)")
AbsCell(avg) ==
    Cell(FALSE, 0,
         FmtInt(avg) \o " (" \o FmtF1(FDiv(100 * avg, BLOCK_LIMIT), FALSE, 4)
                     \o "%)")

\* 100f64 * (avg as f64 - first_avg as f64) / first_avg as f64
Percent(avg, first_avg) == FDiv(100 * (avg - first_avg), first_avg)

ColorCodeInclusive(percent) ==
    LET atMargin(m) == /\ percent.cls = "fin"
                       /\ FSigned(percent) * m.den = FSigned(m) * percent.den
    IN  IF FGreater(percent, MARGIN) \/ atMargin(MARGIN) THEN 91
        ELSE IF FLess(percent, FNeg(MARGIN)) \/ atMargin(FNeg(MARGIN)) THEN 92
        ELSE 0
ColorCode(percent) ==
    IF FGreater(percent, MARGIN) THEN 91
    ELSE IF FLess(percent, FNeg(MARGIN)) THEN 92
    ELSE 0

\* format!("\x1b[{}m{:+} ({:+5.1}%)\x1b[0m", color_code, avg - first_avg, percent)
DeltaCell(avg, first_avg) ==
    LET percent == Percent(avg, first_avg)
    IN  Cell(TRUE, ColorCode(percent),
             FmtIntPlus(avg - first_avg) \o " (" \o FmtF1(percent, TRUE, 5)
                                         \o "%)")

\* if i == 0 { first_avg_gas = Some(avg) }
SetsBaselineAlways(i, first_avg_gas) == TRUE
SetsBaselineFirstPresent(i, first_avg_gas) == first_avg_gas = None
SetsBaseline(i, first_avg_gas) == i = 0

\* The inner loop of the renderer over the slots of one row, from slot i
\* (0-based) on: the cell pushed for every slot and the avg computed for it.
RECURSIVE RenderFrom(_, _, _)
RenderFrom(entry, i, first_avg_gas) ==
    IF i >= Len(entry) THEN <<>>
    ELSE LET slot == entry[i + 1]
         IN  IF slot # None /\ has_gas_data(slot[1])
             THEN LET avg == avg_gas(slot[1])
                      cell == IF first_avg_gas # None
                              THEN DeltaCell(avg, first_avg_gas[1])
                              ELSE AbsCell(avg)
                      next == IF SetsBaseline(i, first_avg_gas)
                              THEN Some(avg) ELSE first_avg_gas
                  IN  <<[cell |-> cell, avg |-> Some(avg)]>>
                          \o RenderFrom(entry, i + 1, next)
             ELSE <<[cell |-> EmptyCell, avg |-> None]>>
                      \o RenderFrom(entry, i + 1, first_avg_gas)

-----------------------------------------------------------------------------
(* Inputs.  A file is unreadable (ok = FALSE: it does not open or does     *)
(* not parse) or holds a report: the deployments in order and the methods  *)
(* map, from map key to method record.                                     *)

Depl(name, gd) == [name |-> name, gas_data |-> gd]
Meth(c, m, gd) == [contract |-> c, method |-> m, gas_data |-> gd]

NoMethods == [k \in {} |-> Meth(sC, sf, <<>>)]

Unreadable == [ok |-> FALSE, deployments |-> <<>>, methods |-> NoMethods]
Readable(d, m) == [ok |-> TRUE, deployments |-> d, methods |-> m]

Restrict(f, S) == [k \in S |-> f[k]]

\* Reports whose presence pattern differs from file to file.
AlignReports ==
    { Readable(d, m) :
        d \in { <<>>, <<Depl(sA, <<>>)>>, <<Depl(sA, <<100>>)>>,
                <<Depl(sA, <<111>>)>> },
        m \in { NoMethods, [k \in {"C_f"} |-> Meth(sC, sf, <<90>>)] } }

\* Reports with repeated keys, empty samples and names that sort oddly.
CopyDeployments ==
    { <<>>,
      <<Depl(sB, <<100>>), Depl(sA, <<111>>)>>,
      <<Depl(sA, <<100>>), Depl(sA, <<111>>)>>,
      <<Depl(sA, <<100>>), Depl(sA, <<>>)>>,
      <<Depl(sB, <<-3>>), Depl(sA, <<0>>)>>,
      <<Depl(sEmpty, <<100>>), Depl(sB, <<90>>)>>,
      <<Depl(MethodKey(sA, sf), <<100>>)>> }

CopyMethodMap ==
    [k \in {"A_f1", "A_f2", "A_g", "AB_f", "A$_f", "B_f"} |->
        CASE k = "A_f1" -> Meth(sA, sf, <<90>>)
          [] k = "A_f2" -> Meth(sA, sf, <<111>>)
          [] k = "A_g" -> Meth(sA, sg, <<>>)
          [] k = "AB_f" -> Meth(sAB, sf, <<100>>)
          [] k = "A$_f" -> Meth(sADollar, sf, <<100>>)
          [] k = "B_f" -> Meth(sB, sf, <<10, 11>>)]

CopyMethods ==
    { Restrict(CopyMethodMap, S) :
        S \in { {}, {"A_f1", "A_f2"}, {"A_f1", "A_g"}, {"B_f", "AB_f", "A_f1"},
                {"A$_f", "A_f1"} } }

CopyReports == { Readable(d, m) : d \in CopyDeployments, m \in CopyMethods }

\* Sample sequences for the numeric cases.
GasPool ==
    { <<10, 11>>, <<90>>, <<100>>, <<111>>, <<200, 200>>, <<220, 220>>,
      <<999>>, <<1000>>, <<1001>>, <<1002>>, <<200000>>,
      <<0>>, <<-1, 0>>, <<-3>>, <<-7, -4>> }

NumReports == { Readable(<<Depl(sToken, gd)>>, NoMethods) : gd \in GasPool }

Inputs ==
    UNION { [1..n -> AlignReports \cup {Unreadable}] : n \in 0..MaxFiles }
    \cup { [i \in 1..n |-> r] :
             n \in 1..MaxFiles, r \in CopyReports \cup {Unreadable} }
    \cup { [i \in 1..n |-> IF i = 1 THEN x ELSE y] :
             n \in 1..MaxFiles, x \in NumReports, y \in NumReports }

\* The path of the i-th argument, as its components.
PathOf(i) == IF i = 1 THEN <<"base.json">> ELSE <<"runs", "head.json">>

\* Path::file_name(..).unwrap_or_default()
FileName(path) == IF path = <<>> THEN "" ELSE path[Len(path)]

-----------------------------------------------------------------------------
(* The program.                                                            *)

file_count == Len(files)

NoReport == [deployments |-> <<>>, methods |-> NoMethods]

Init ==
    /\ files \in Inputs
    /\ pc = "open"
    /\ index = 0
    /\ report = NoReport
    /\ data = [k \in {} |-> <<>>]
    /\ filenames = <<>>
    /\ opened = <<>>
    /\ header = <<>>
    /\ rows = <<>>
    /\ avgs = <<>>
    /\ stdout = <<>>

\* File::open(path).unwrap() and serde_json::from_reader(file).unwrap()
\* succeed: the report of file `index` is ready for the two loops.
OpenFile ==
    /\ pc = "open"
    /\ index < file_count
    /\ files[index + 1].ok
    /\ opened' = Append(opened, index)
    /\ report' = [deployments |-> files[index + 1].deployments,
                  methods |-> files[index + 1].methods]
    /\ pc' = "load"
    /\ UNCHANGED <<files, index, data, filenames, header, rows, avgs, stdout>>

\* One of the two unwraps panics: the process aborts.
OpenFileFailsSkip ==
    /\ pc = "open"
    /\ index < file_count
    /\ ~files[index + 1].ok
    /\ opened' = Append(opened, index)
    /\ index' = index + 1
    /\ filenames' = Append(filenames, FileName(PathOf(index + 1)))
    /\ UNCHANGED <<files, pc, report, data, header, rows, avgs, stdout>>
OpenFileFails ==
    /\ pc = "open"
    /\ index < file_count
    /\ ~files[index + 1].ok
    /\ opened' = Append(opened, index)
    /\ pc' = "aborted"
    /\ UNCHANGED <<files, index, report, data, filenames, header, rows, avgs,
                   stdout>>

\* data.entry(key).or_insert(vec![None; file_count])[index] = Some(entry)
Insert(d, key, entry) ==
    LET row == IF key \in DOMAIN d THEN d[key]
               ELSE [i \in 1..file_count |-> None]
        new == [row EXCEPT ![index + 1] = Some(entry)]
    IN  [k \in DOMAIN d \cup {key} |-> IF k = key THEN new ELSE d[k]]

\* Whether the loader passes an entry with these samples on to the map.
KeepsAll(gd) == TRUE
Keeps(gd) == Len(gd) # 0

\* One iteration of `for depl in report.info.deployments`.
LoadDeployment ==
    /\ pc = "load"
    /\ report.deployments # <<>>
    /\ LET depl == Head(report.deployments)
       IN  data' = IF Keeps(depl.gas_data)
                   THEN Insert(data, DeploymentKey(depl), Deployment(depl))
                   ELSE data
    /\ report' = [report EXCEPT !.deployments = Tail(@)]
    /\ UNCHANGED <<files, pc, index, filenames, opened, header, rows, avgs,
                   stdout>>

\* One iteration of `for (_, method) in report.info.methods`; a HashMap
\* yields its entries in an arbitrary order.
LoadMethod ==
    /\ pc = "load"
    /\ report.deployments = <<>>
    /\ \E k \in DOMAIN report.methods :
         LET method == report.methods[k]
         IN  /\ data' = IF Keeps(method.gas_data)
                        THEN Insert(data,
                                    MethodKey(method.contract, method.method),
                                    Method(method))
                        ELSE data
             /\ report' = [report EXCEPT
                             !.methods = Restrict(@, DOMAIN @ \ {k})]
    /\ UNCHANGED <<files, pc, index, filenames, opened, header, rows, avgs,
                   stdout>>

\* Both loops are done: filenames.push(file_name), on to the next file.
PushFilename ==
    /\ pc = "load"
    /\ report.deployments = <<>>
    /\ DOMAIN report.methods = {}
    /\ filenames' = Append(filenames, FileName(PathOf(index + 1)))
    /\ index' = index + 1
    /\ pc' = "open"
    /\ UNCHANGED <<files, report, data, opened, header, rows, avgs, stdout>>

\* All files are loaded: builder.set_header(["Deployments"] ++ filenames).
SetHeader ==
    /\ pc = "open"
    /\ index = file_count
    /\ header' = <<"Deployments">> \o filenames
    /\ pc' = "render"
    /\ UNCHANGED <<files, index, report, data, filenames, opened, rows, avgs,
                   stdout>>

\* One iteration of `for (contract_name, entry) in data.iter().sorted()`.
RenderRow ==
    /\ pc = "render"
    /\ Len(rows) < Cardinality(DOMAIN data)
    /\ LET contract_name == sorted(DOMAIN data)[Len(rows) + 1]
           rendered == RenderFrom(data[contract_name], 0, None)
       IN  /\ rows' = Append(rows,
                        [key |-> contract_name,
                         cells |-> [i \in 1..Len(rendered) |-> rendered[i].cell]])
           /\ avgs' = Append(avgs,
                        [i \in 1..Len(rendered) |-> rendered[i].avg])
    /\ UNCHANGED <<files, pc, index, report, data, filenames, opened, header,
                   stdout>>

\* builder.build() ... println!("{}", table)
PrintTable ==
    /\ pc = "render"
    /\ Len(rows) = Cardinality(DOMAIN data)
    /\ stdout' = Append(stdout, [header |-> header, rows |-> rows])
    /\ pc' = "done"
    /\ UNCHANGED <<files, index, report, data, filenames, opened, header, rows,
                   avgs>>

Next ==
    \/ OpenFile
    \/ OpenFileFails
    \/ LoadDeployment
    \/ LoadMethod
    \/ PushFilename
    \/ SetHeader
    \/ RenderRow
    \/ PrintTable

Spec == Init /\ [][Next]_vars

-----------------------------------------------------------------------------
(* Properties.                                                             *)

N == Len(files)

Loaded == pc \in {"render", "done"}

Rendered == 1..Len(rows)

\* The slots of the map row that rendered row r was made from.
SlotsOf(r) == data[rows[r].key]

PresentIn(r, i) == SlotsOf(r)[i] # None

AvgOf(r, i) == avgs[r][i][1]

\* File i has a deployment or a method with display key k and with samples.
FileSupplies(i, k) ==
    /\ files[i].ok
    /\ \/ \E j \in 1..Len(files[i].deployments) :
            /\ files[i].deployments[j].name = k
            /\ Len(files[i].deployments[j].gas_data) > 0
       \/ \E mk \in DOMAIN files[i].methods :
            LET m == files[i].methods[mk]
            IN  /\ MethodKey(m.contract, m.method) = k
                /\ Len(m.gas_data) > 0

\* The display keys of all entries of all files, with samples or without.
AllKeys ==
    UNION { { files[i].deployments[j].name :
                j \in 1..Len(files[i].deployments) }
            \cup { MethodKey(files[i].methods[mk].contract,
                             files[i].methods[mk].method) :
                     mk \in DOMAIN files[i].methods } : i \in 1..N }

\* C1 as claimed: in every rendered row, with j the first column that has
\* data, every later column with data is the delta against column j's
\* average, whatever j is.
C1_Original ==
    \A r \in Rendered : \A j \in 1..N : \A k \in 1..N :
        ( /\ PresentIn(r, j)
          /\ \A h \in 1..(j - 1) : ~PresentIn(r, h)
          /\ k > j
          /\ PresentIn(r, k) )
        => rows[r].cells[k] = DeltaCell(AvgOf(r, k), AvgOf(r, j))

\* C1 amended: deltas are computed against column 0 only.  When file 0
\* reports the key, every later column with data is the delta against file
\* 0's average; and a cell is a delta cell only in such a row.
C1_DeltaAgainstColumnZero ==
    \A r \in Rendered : \A k \in 2..N :
        /\ (PresentIn(r, 1) /\ PresentIn(r, k))
              => rows[r].cells[k] = DeltaCell(AvgOf(r, k), AvgOf(r, 1))
        /\ rows[r].cells[k].esc => (PresentIn(r, 1) /\ PresentIn(r, k))
        /\ ~rows[r].cells[1].esc

C1_Witness ==
    \E r \in Rendered :
        /\ N >= 3
        /\ \A i \in 1..3 : PresentIn(r, i)
        /\ AvgOf(r, 1) # AvgOf(r, 2)

\* C2: in a row whose column 0 is absent, every column with data is rendered
\* in absolute mode (average and percent of the block limit), never as a
\* delta.
C2_NoBaselineWithoutColumnZero ==
    \A r \in Rendered :
        ~PresentIn(r, 1) =>
            \A k \in 1..N :
                PresentIn(r, k) =>
                    /\ ~rows[r].cells[k].esc
                    /\ rows[r].cells[k] = AbsCell(AvgOf(r, k))

C2_Witness ==
    \E r \in Rendered :
        /\ N >= 3
        /\ ~PresentIn(r, 1)
        /\ PresentIn(r, 2)
        /\ PresentIn(r, 3)

\* The percent field of a delta cell as the claim states it: 100*(a-b)/b to
\* one decimal, signed, in a field of five characters.
C3_PercentTexts(a, b) ==
    IF b = 0
    THEN { IF a = 0 THEN "  NaN" ELSE IF a > 0 THEN " +inf" ELSE " -inf" }
    ELSE LET d == a - b
             q == (1000 * Abs(d)) \div Abs(b)
             neg == IF d = 0 THEN b < 0 ELSE (d < 0) # (b < 0)
         IN  { PadLeft((IF neg THEN "-" ELSE "+") \o Digits(t \div 10)
                           \o "." \o Digit(t % 10), 5) :
                 t \in { u \in {q, q + 1} :
                           2 * Abs(1000 * Abs(d) - u * Abs(b)) <= Abs(b) } }

\* percent > +0.1 and percent < -0.1, for percent = 100*(a-b)/b
C3_Regression(a, b) ==
    IF b > 0 THEN 1000 * (a - b) > b
    ELSE IF b < 0 THEN 1000 * (a - b) < b
    ELSE a > 0

C3_Improvement(a, b) ==
    IF b > 0 THEN 1000 * (a - b) < -b
    ELSE IF b < 0 THEN 1000 * (a - b) > -b
    ELSE a < 0

\* C3: a delta cell with baseline average b and own average a shows the
\* signed difference a-b and the signed percentage 100*(a-b)/b to one
\* decimal; it is red exactly when the percentage is above +0.1, green
\* exactly when it is below -0.1, neutral otherwise.  b=100, a=111 gives
\* "+11 (+11.0%)" in red, b=100, a=90 gives "-10 (-10.0%)" in green.
C3_DeltaCell ==
    \A r \in Rendered : \A k \in 1..N :
        rows[r].cells[k].esc =>
            LET b == AvgOf(r, 1)
                a == AvgOf(r, k)
                c == rows[r].cells[k]
            IN  /\ \E p \in C3_PercentTexts(a, b) :
                      c.text = FmtIntPlus(a - b) \o " (" \o p \o "%)"
                /\ (c.color = 91) <=> C3_Regression(a, b)
                /\ (c.color = 92) <=> C3_Improvement(a, b)
                /\ c.color \in {91, 92, 0}
                /\ (b = 100 /\ a = 111) => c = Cell(TRUE, 91, "+11 (+11.0%)")
                /\ (b = 100 /\ a = 90) => c = Cell(TRUE, 92, "-10 (-10.0%)")

C3_Witness ==
    \E r \in Rendered :
        /\ N >= 2
        /\ rows[r].cells[2].esc
        /\ AvgOf(r, 1) = 1000
        /\ AvgOf(r, 2) = 1001

\* C4: the average of an entry is sum(samples) / len(samples), truncated
\* toward zero ([10,11] gives 10), and it is computed only for entries that
\* have samples.
C4_TruncatedAverage ==
    \A r \in Rendered : \A i \in 1..N :
        /\ (avgs[r][i] # None) <=> PresentIn(r, i)
        /\ PresentIn(r, i) =>
             LET gd == gas_data(SlotsOf(r)[i][1])
                 n == Len(gd)
                 s == Sum(gd)
                 q == AvgOf(r, i)
             IN  /\ n > 0
                 /\ Abs(q) * n <= Abs(s)
                 /\ Abs(s) < (Abs(q) + 1) * n
                 /\ (q > 0 => s > 0)
                 /\ (q < 0 => s < 0)
                 /\ (gd = <<10, 11>> => q = 10)

C4_Witness ==
    \E r \in Rendered : \E i \in 1..N :
        /\ PresentIn(r, i)
        /\ gas_data(SlotsOf(r)[i][1]) = <<10, 11>>
        /\ AvgOf(r, i) = 10

\* C5: once all N files are loaded, every row has N slots, slot i of the row
\* of key k is filled exactly when file i has an entry with display key k
\* and with samples, no stored entry is without samples, and a key has a row
\* exactly when some file supplies samples for it.
C5_AlignedRows ==
    Loaded =>
        /\ \A k \in DOMAIN data :
             /\ Len(data[k]) = N
             /\ \A i \in 1..N :
                  /\ (data[k][i] # None) <=> FileSupplies(i, k)
                  /\ data[k][i] # None => Len(gas_data(data[k][i][1])) > 0
        /\ \A k \in AllKeys :
             (k \in DOMAIN data) <=> (\E i \in 1..N : FileSupplies(i, k))

C5_Witness ==
    /\ Loaded
    /\ \E k \in DOMAIN data : \E i \in 1..N : \E j \in 1..N :
         data[k][i] = None /\ data[k][j] # None
    /\ \E k \in AllKeys : k \notin DOMAIN data

\* C6 as claimed: with the same file given twice, every row has column 0 in
\* absolute mode and column 1 showing +0 (+0.0%) in neutral color (the
\* percent field with or without its padding).
C6_Original ==
    (pc = "done" /\ N = 2 /\ files[1] = files[2]) =>
        \A r \in Rendered :
            /\ rows[r].cells[1] = AbsCell(AvgOf(r, 1))
            /\ rows[r].cells[2] \in { Cell(TRUE, 0, "+0 (+0.0%)"),
                                      Cell(TRUE, 0, "+0 ( +0.0%)") }

\* C7 as claimed: Token with [200,200] in file A and [220,220] in file B
\* gives the row 200 (0.7%) | +20 (+10.0%), the second cell red.
C7_Original ==
    ( /\ pc = "done"
      /\ N = 2
      /\ files[1] = Readable(<<Depl(sToken, <<200, 200>>)>>, NoMethods)
      /\ files[2] = Readable(<<Depl(sToken, <<220, 220>>)>>, NoMethods) )
    => /\ rows[1].cells[1] \in { Cell(FALSE, 0, "200 (0.7%)"),
                                 Cell(FALSE, 0, "200 ( 0.7%)") }
       /\ rows[1].cells[2] = Cell(TRUE, 91, "+20 (+10.0%)")

\* The percent-of-block-limit field: 100*avg/30000000 to one decimal in a
\* field of four characters.
C7_BlockPercentTexts(avg) ==
    LET q == (1000 * Abs(avg)) \div 30000000
    IN  { PadLeft((IF avg < 0 THEN "-" ELSE "") \o Digits(t \div 10)
                      \o "." \o Digit(t % 10), 4) :
            t \in { u \in {q, q + 1} :
                      2 * Abs(1000 * Abs(avg) - u * 30000000) <= 30000000 } }

\* C7 amended: a present column 0 reads "<average> (<p>%)" with p =
\* 100*average/30000000 to one decimal in a field of four characters, and
\* later present columns are deltas against it; Token with [200,200] and
\* [220,220] gives 200 ( 0.0%) | +20 (+10.0%), the second cell red, and 0.7%
\* is what an average of 200000 gives.
C7_AbsoluteColumnZero ==
    /\ \A r \in Rendered :
         PresentIn(r, 1) =>
            /\ ~rows[r].cells[1].esc
            /\ \E p \in C7_BlockPercentTexts(AvgOf(r, 1)) :
                 rows[r].cells[1].text
                    = FmtInt(AvgOf(r, 1)) \o " (" \o p \o "%)"
            /\ (AvgOf(r, 1) = 200000
                  => rows[r].cells[1].text = "200000 ( 0.7%)")
            /\ \A k \in 2..N :
                 PresentIn(r, k) =>
                    /\ rows[r].cells[k].esc
                    /\ rows[r].cells[k].text
                         = DeltaCell(AvgOf(r, k), AvgOf(r, 1)).text
    /\ ( /\ pc = "done"
         /\ N = 2
         /\ files[1] = Readable(<<Depl(sToken, <<200, 200>>)>>, NoMethods)
         /\ files[2] = Readable(<<Depl(sToken, <<220, 220>>)>>, NoMethods) )
       => /\ rows[1].key = sToken
          /\ rows[1].cells = << Cell(FALSE, 0, "200 ( 0.0%)"),
                                Cell(TRUE, 91, "+20 (+10.0%)") >>

C7_Witness ==
    /\ pc = "done"
    /\ N = 2
    /\ files[1] = Readable(<<Depl(sToken, <<200, 200>>)>>, NoMethods)
    /\ files[2] = Readable(<<Depl(sToken, <<220, 220>>)>>, NoMethods)
    /\ stdout # <<>>

\* C8: the table is written only after every file was opened and parsed, in
\* command-line order; when file i fails the process aborts there, with
\* nothing written and no later file opened.
C8_NoPartialOutput ==
    /\ opened = [i \in 1..Len(opened) |-> i - 1]
    /\ \A i \in 1..Len(opened) : \A j \in 1..(i - 1) : files[j].ok
    /\ stdout # <<>> =>
          /\ Len(opened) = N
          /\ \A i \in 1..N : files[i].ok
          /\ Len(stdout) = 1
    /\ (\E i \in 1..Len(opened) : ~files[i].ok) =>
          /\ pc = "aborted"
          /\ stdout = <<>>
          /\ rows = <<>>
          /\ ~files[Len(opened)].ok
    /\ pc = "done" => stdout # <<>>

C8_Witness ==
    /\ pc = "aborted"
    /\ Len(opened) >= 2
    /\ Len(opened) < N
    /\ DOMAIN data # {}
    /\ stdout = <<>>

\* The kind of the entries of rendered row r.
IsMethodRow(r) ==
    \E i \in 1..N : PresentIn(r, i) /\ SlotsOf(r)[i][1].kind = "Method"

IsDeploymentRow(r) ==
    \E i \in 1..N : PresentIn(r, i) /\ SlotsOf(r)[i][1].kind = "Deployment"

MethodIdsOf(r) ==
    { [contract |-> SlotsOf(r)[i][1].raw.contract,
       method |-> SlotsOf(r)[i][1].raw.method] :
        i \in { h \in 1..N : PresentIn(r, h)
                             /\ SlotsOf(r)[h][1].kind = "Method" } }

RowsAscending ==
    \A r \in Rendered : \A q \in Rendered :
        r < q => StrLess(rows[r].key, rows[q].key)

MethodsFirstAlphabetical ==
    \A r \in Rendered : \A q \in Rendered :
        /\ (IsMethodRow(r) /\ IsDeploymentRow(q)) => r < q
        /\ (r < q /\ IsMethodRow(r) /\ IsMethodRow(q)) =>
              \A l \in MethodIdsOf(r) : \A m \in MethodIdsOf(q) :
                  MethodIdLess(l, m)
        /\ (r < q /\ IsDeploymentRow(r) /\ IsDeploymentRow(q)) =>
              StrLess(rows[r].key, rows[q].key)

\* C9 as claimed: rows come in ascending order of the display key, and that
\* order puts every method row before every deployment row, each group in
\* alphabetical order, for every set of names.
C9_Original == RowsAscending /\ MethodsFirstAlphabetical

\* A non-empty name of ASCII letters, digits and underscores.
IsPlainIdent(s) ==
    /\ s # <<>>
    /\ \A i \in 1..Len(s) :
         s[i] \in (48..57) \cup (65..90) \cup {95} \cup (97..122)

PlainNames ==
    \A i \in 1..N :
        /\ \A j \in 1..Len(files[i].deployments) :
             IsPlainIdent(files[i].deployments[j].name)
        /\ \A mk \in DOMAIN files[i].methods :
             IsPlainIdent(files[i].methods[mk].contract)

\* C9 amended: rows come in ascending byte order of the display key; when
\* every deployment name and every contract name is a non-empty identifier
\* of ASCII letters, digits and underscores, that order puts every method
\* row before every deployment row, methods by contract then method and
\* deployments by name.
C9_SortedByDisplayKey ==
    /\ RowsAscending
    /\ PlainNames => MethodsFirstAlphabetical

C9_Witness ==
    /\ pc = "done"
    /\ PlainNames
    /\ \E r \in Rendered : \E q \in Rendered : \E d \in Rendered :
         /\ r < q
         /\ IsMethodRow(r)
         /\ IsMethodRow(q)
         /\ IsDeploymentRow(d)
         /\ \E l \in MethodIdsOf(r) : \E m \in MethodIdsOf(q) :
              l.contract # m.contract /\ Len(l.contract) # Len(m.contract)

\* C10 as claimed: every insertion into the map writes a slot that is still
\* empty; a filled slot never changes.
C10_Original ==
    [][ \A k \in DOMAIN data : \A i \in 1..Len(data[k]) :
          data[k][i] # None => data'[k][i] = data[k][i] ]_vars

====
